---- MODULE Spec2Model ----
(***************************************************************************)
(* Model of app.py: a Streamlit script that queries the CKAN DataStore of  *)
(* datos.gob.cl, keeps the loaded DataFrame in st.session_state.df and     *)
(* draws one of two charts from it.                                        *)
(*                                                                         *)
(* Text is a sequence of one-character strings.  A number is an exact      *)
(* rational n/d (the float arithmetic of pandas is not modelled).  A cell  *)
(* is a record [t, s, n, d]; a DataFrame is [columns, rows], row-major.    *)
(* One run of the script is two steps: the load logic (lines 113-146) and, *)
(* unless it stopped, the rendering (lines 151-364); pc says which is next.*)
(***************************************************************************)
EXTENDS Integers, Sequences, FiniteSets, TLC

VARIABLES
    session_df,   \* st.session_state.df: <<>> (None) or <<DataFrame>>
    last_rid,     \* st.session_state.last_rid: <<>> (unset) or <<text>>
    cache,        \* the st.cache_data store of fetch_ckan: key -> DataFrame
    completed,    \* history: arguments -> the df the first completed call with them returned
    pc,           \* "idle": between runs; "render": run at line 151
    run,          \* value of the button "Consultar API" in the current/last run
    params,       \* sidebar values (resource_id, q, limit, offset) of that run
    response,     \* the HTTP response requests.get received in that run
    requests,     \* HTTP requests issued in that run
    fetched,      \* df returned by fetch_ckan in that run: <<>> or <<DataFrame>>
    report,       \* the message of the load logic in that run
    chart         \* what the run rendered below the tables

vars == <<session_df, last_rid, cache, completed, pc, run, params, response,
          requests, fetched, report, chart>>

(***************************************************************************)
(* Bounds of the datasets the server is taken to hold.                     *)
(***************************************************************************)
MaxLabelLen == 3
MaxCells == 2
MaxRows == 3
MaxKeys == 6
MaxDates == 3

(***************************************************************************)
(* Characters and text.                                                    *)
(***************************************************************************)
Range(f) == {f[i] : i \in DOMAIN f}

Whitespace == {" ", "\t"}
Digits == {"0", "1", "2", "3", "4", "5", "6", "7", "8", "9"}
DigitSeq == <<"0", "1", "2", "3", "4", "5", "6", "7", "8", "9">>
LowerAlpha == <<"a", "b", "c", "d", "e", "f", "g", "h", "i", "j", "k", "l", "m",
                "n", "o", "p", "q", "r", "s", "t", "u", "v", "w", "x", "y", "z">>
UpperAlpha == <<"A", "B", "C", "D", "E", "F", "G", "H", "I", "J", "K", "L", "M",
                "N", "O", "P", "Q", "R", "S", "T", "U", "V", "W", "X", "Y", "Z">>
Letters == Range(LowerAlpha) \cup Range(UpperAlpha)

\* Code-point order of the characters the model uses (for sorting text).
AsciiOrder == <<"\t", " ", "$", "(", ")", ",", "-", ".", "/">> \o DigitSeq \o <<":">>
              \o UpperAlpha \o <<"_">> \o LowerAlpha
CharOrd(c) == CHOOSE i \in 1..Len(AsciiOrder) : AsciiOrder[i] = c

RECURSIVE TextLess(_, _)
TextLess(a, b) ==
    IF a = <<>> THEN b # <<>>
    ELSE IF b = <<>> THEN FALSE
    ELSE IF Head(a) = Head(b) THEN TextLess(Tail(a), Tail(b))
    ELSE CharOrd(Head(a)) < CharOrd(Head(b))

\* str.strip(): leading and trailing whitespace removed.
RECURSIVE LStrip(_)
LStrip(s) == IF s # <<>> /\ Head(s) \in Whitespace THEN LStrip(Tail(s)) ELSE s
RECURSIVE RStrip(_)
RStrip(s) ==
    IF s # <<>> /\ s[Len(s)] \in Whitespace THEN RStrip(SubSeq(s, 1, Len(s) - 1)) ELSE s
Strip(s) == RStrip(LStrip(s))

\* str.replace(r"\s+", "_", regex=True): each maximal whitespace run -> "_".
RECURSIVE WhitespaceToUnderscore(_)
WhitespaceToUnderscore(s) ==
    IF s = <<>> THEN <<>>
    ELSE IF Head(s) \in Whitespace
         THEN <<"_">> \o WhitespaceToUnderscore(LStrip(Tail(s)))
         ELSE <<Head(s)>> \o WhitespaceToUnderscore(Tail(s))

\* [0-9a-zA-Z_]
IsWordChar(c) == c \in Digits \cup Letters \cup {"_"}

\* Variant: symbols blanked instead of deleted.
SymbolsToSpace(s) == [i \in 1..Len(s) |-> IF IsWordChar(s[i]) THEN s[i] ELSE " "]
\* str.replace(r"[^0-9a-zA-Z_]", "", regex=True)
RemoveSymbols(s) == SelectSeq(s, IsWordChar)

LowerChar(c) ==
    IF c \in Range(UpperAlpha)
    THEN LowerAlpha[CHOOSE i \in 1..Len(UpperAlpha) : UpperAlpha[i] = c]
    ELSE c
\* str.lower()
Lower(s) == [i \in 1..Len(s) |-> LowerChar(s[i])]

\* Lines 74-80: the normalisation of one column label.
NormalizeLabel(label) == Lower(RemoveSymbols(WhitespaceToUnderscore(Strip(label))))

(***************************************************************************)
(* Numbers (exact rationals n/d, d > 0) and cells.                         *)
(***************************************************************************)
Str(s) == [t |-> "str", s |-> s, n |-> 0, d |-> 1]
Null == [t |-> "null", s |-> <<>>, n |-> 0, d |-> 1]
Num(n, d) == [t |-> "num", s |-> <<>>, n |-> n, d |-> d]
NaN == [t |-> "nan", s |-> <<>>, n |-> 0, d |-> 1]
Date(ordinal) == [t |-> "date", s |-> <<>>, n |-> ordinal, d |-> 1]
NaT == [t |-> "nat", s |-> <<>>, n |-> 0, d |-> 1]

IsMissing(c) == c.t \in {"null", "nan", "nat"}

RECURSIVE Gcd(_, _)
Gcd(a, b) == IF b = 0 THEN a ELSE Gcd(b, a % b)
Abs(a) == IF a < 0 THEN -a ELSE a
Reduced(n, d) == LET g == Gcd(Abs(n), d) IN Num(n \div g, d \div g)
NumAdd(a, b) == Reduced(a.n * b.d + b.n * a.d, a.d * b.d)
NumDivInt(a, k) == Reduced(a.n, a.d * k)
NumLess(a, b) == a.n * b.d < b.n * a.d

(***************************************************************************)
(* DataFrames.                                                             *)
(***************************************************************************)
None == <<>>
Some(v) == <<v>>

Frame(columns, rows) == [columns |-> columns, rows |-> rows]
\* pd.DataFrame([]) : no rows, no columns
NoRecords == Frame(<<>>, <<>>)

NRows(df) == Len(df.rows)
NCols(df) == Len(df.columns)
\* DataFrame.empty: any axis of length 0
DfEmpty(df) == NRows(df) = 0 \/ NCols(df) = 0

ColumnSet(df) == Range(df.columns)
HasDuplicateColumns(df) == Cardinality(ColumnSet(df)) # NCols(df)
ColIndex(df, c) == CHOOSE j \in 1..NCols(df) : df.columns[j] = c
\* df[c] for a label that names one column
Column(df, c) == [i \in 1..NRows(df) |-> df.rows[i][ColIndex(df, c)]]
\* df[c] = values
SetColumn(df, c, values) ==
    Frame(df.columns,
          [i \in 1..NRows(df) |->
              [j \in 1..NCols(df) |->
                  IF j = ColIndex(df, c) THEN values[i] ELSE df.rows[i][j]]])

\* Lines 73-80: the labels of a non-empty frame rewritten.
NormalizeColumns(df) ==
    Frame([j \in 1..NCols(df) |-> NormalizeLabel(df.columns[j])], df.rows)

(***************************************************************************)
(* fetch_ckan, lines 57-81, under @st.cache_data.                          *)
(***************************************************************************)
Params(rid, q, limit, offset) ==
    [resource_id |-> rid, q |-> q, limit |-> limit, offset |-> offset]

\* Variant: a key that ignores q.
KeyWithoutFilter(p) == <<p.resource_id, <<>>, p.limit, p.offset>>
\* st.cache_data keys a call by the values of all its arguments.
CacheKey(p) == <<p.resource_id, p.q, p.limit, p.offset>>

NoResponse == [kind |-> "none", status |-> 0, json |-> FALSE, has_result |-> FALSE,
               records |-> NoRecords]
NetworkError == [kind |-> "neterr", status |-> 0, json |-> FALSE, has_result |-> FALSE,
                 records |-> NoRecords]
\* A response with a body that is not JSON (r.json() raises).
BadBody(status) == [kind |-> "http", status |-> status, json |-> FALSE,
                    has_result |-> FALSE, records |-> NoRecords]
\* A JSON object without "result" / without "records".
NoResultKey(status) == [kind |-> "http", status |-> status, json |-> TRUE,
                        has_result |-> FALSE, records |-> NoRecords]
Envelope(status, records) == [kind |-> "http", status |-> status, json |-> TRUE,
                              has_result |-> TRUE, records |-> records]

\* Response.raise_for_status(): HTTPError for a 4xx or 5xx status.
RaisesForStatus(status) == status >= 400 /\ status < 600

\* Lines 64-81 on a response: [raised, df].
FetchBody(resp) ==
    IF resp.kind = "neterr" \/ RaisesForStatus(resp.status) \/ ~resp.json
    THEN [raised |-> TRUE, df |-> NoRecords]
    ELSE LET records == IF resp.has_result THEN resp.records ELSE NoRecords
         IN  IF DfEmpty(records)
             THEN [raised |-> FALSE, df |-> records]
             ELSE [raised |-> FALSE, df |-> NormalizeColumns(records)]

\* Variant: a call that raises is cached as an empty result.
CacheErrorsAsEmpty(store, p, res) == [k \in DOMAIN store \cup {CacheKey(p)} |->
    IF k = CacheKey(p) THEN res.df ELSE store[k]]
\* st.cache_data stores the value a call returns; a call that raises stores nothing.
CacheStore(store, p, res) ==
    IF res.raised THEN store
    ELSE [k \in DOMAIN store \cup {CacheKey(p)} |->
             IF k = CacheKey(p) THEN res.df ELSE store[k]]

\* The memoised call: [raised, df, requests, cache].
fetch_ckan(store, p, resp) ==
    IF CacheKey(p) \in DOMAIN store
    THEN [raised |-> FALSE, df |-> store[CacheKey(p)], requests |-> 0, cache |-> store]
    ELSE LET res == FetchBody(resp)
         IN  [raised |-> res.raised, df |-> res.df, requests |-> 1,
              cache |-> CacheStore(store, p, res)]

(***************************************************************************)
(* The load logic, lines 113-146.                                          *)
(***************************************************************************)
\* What a run shows below the tables: the outcome (kind), the widget values it
\* read, the Y candidates it offered, its working copy (df_num / sdf), the
\* aggregated series before (agg) and after (series) ordering and Top N.
Chart(kind, x_col, y_col, combine, top_n, order_desc, freq, is_date, candidates, work, agg, series) ==
    [kind |-> kind, x_col |-> x_col, y_col |-> y_col, combine |-> combine,
     top_n |-> top_n, order_desc |-> order_desc, freq |-> freq, is_date |-> is_date,
     y_candidates |-> candidates, work |-> work, agg |-> agg, series |-> series]
NoChart == Chart("none", <<>>, <<>>, "", 0, FALSE, "", FALSE, {}, NoRecords, <<>>, <<>>)

\* Variant: the slot takes whatever the fetch returned.
StoreAlways(slot, df) == Some(df)
\* Lines 121-125: an empty df is discarded, any other replaces the slot.
StoreResult(slot, df) == IF DfEmpty(df) THEN slot ELSE Some(df)

\* A raise in fetch_ckan (line 119) ends the run before line 125.
SlotOnError(slot) == slot

\* Lines 135-146: with nothing loaded the run ends at the cover page.
AfterGuard(slot) == IF slot = None THEN "idle" ELSE "render"

\* The load logic once fetch_ckan was called with p and resp was the answer to
\* its request, if it made one.
Load(p, resp) ==
    LET res == fetch_ckan(cache, p, resp)
    IN  /\ requests' = res.requests
        /\ response' = resp
        /\ cache' = res.cache
        /\ IF res.raised
           THEN /\ report' = "exception"
                /\ fetched' = None
                /\ session_df' = SlotOnError(session_df)
                /\ pc' = "idle"
                /\ UNCHANGED <<last_rid, completed>>
           ELSE /\ fetched' = Some(res.df)
                /\ completed' =
                     IF p \in DOMAIN completed THEN completed
                     ELSE [k \in DOMAIN completed \cup {p} |->
                             IF k = p THEN res.df ELSE completed[k]]
                /\ session_df' = StoreResult(session_df, res.df)
                /\ IF DfEmpty(res.df)
                   THEN \* lines 121-123
                        /\ report' = "sin_datos"
                        /\ pc' = "idle"
                        /\ UNCHANGED last_rid
                   ELSE \* lines 125-127
                        /\ report' = "success"
                        /\ last_rid' = Some(p.resource_id)
                        /\ pc' = AfterGuard(session_df')

\* The button pressed with p in the sidebar; responses are the answers the
\* server may give to a request (none is made, and none received, when the
\* call is served from the cache).
Consultar(p, responses) ==
    /\ pc = "idle"
    /\ run' = TRUE
    /\ params' = p
    /\ chart' = NoChart
    /\ IF p.resource_id = <<>>
       THEN \* lines 114-116
            /\ report' = "sin_rid"
            /\ requests' = 0
            /\ response' = NoResponse
            /\ fetched' = None
            /\ pc' = "idle"
            /\ UNCHANGED <<session_df, last_rid, cache, completed>>
       ELSE \E resp \in (IF CacheKey(p) \in DOMAIN cache THEN {NoResponse} ELSE responses) :
              Load(p, resp)

\* A run the button did not start (a widget changed, or the page was rerun).
Rerun(p) ==
    /\ pc = "idle"
    /\ run' = FALSE
    /\ params' = p
    /\ chart' = NoChart
    /\ requests' = 0
    /\ response' = NoResponse
    /\ fetched' = None
    /\ report' = IF session_df = None THEN "portada" ELSE "none"
    /\ pc' = AfterGuard(session_df)
    /\ UNCHANGED <<session_df, last_rid, cache, completed>>

(***************************************************************************)
(* Numeric clean-up and parsing, lines 198-204 and 220-225.                *)
(***************************************************************************)
RECURSIVE NatText(_)
NatText(n) == IF n < 10 THEN <<DigitSeq[n + 1]>>
              ELSE NatText(n \div 10) \o <<DigitSeq[(n % 10) + 1]>>
IntText(n) == IF n < 0 THEN <<"-">> \o NatText(-n) ELSE NatText(n)

\* is_numeric_dtype(df[c]): numbers, possibly with nulls (then float64).
IsNumericDtype(col) ==
    /\ \A i \in DOMAIN col : col[i].t \in {"num", "null"}
    /\ \E i \in DOMAIN col : col[i].t = "num"
\* dtype == "object": a column holding text (or nothing but nulls).
IsObjectDtype(col) == ~IsNumericDtype(col)
IsFloatDtype(col) == IsNumericDtype(col) /\ \E i \in DOMAIN col : col[i].t = "null"

\* Series.astype(str), element by element.
AsStr(col) ==
    [i \in DOMAIN col |->
        CASE col[i].t = "str" -> col[i].s
          [] col[i].t = "num" ->
                IF IsFloatDtype(col) THEN IntText(col[i].n) \o <<".", "0">>
                ELSE IntText(col[i].n)
          [] col[i].t = "null" ->
                IF IsFloatDtype(col) THEN <<"n", "a", "n">> ELSE <<"N", "o", "n", "e">>]

IsNumericSymbol(c) == c \in Digits \cup {",", ".", "-"}
\* .str.replace(r"[^\d,.\-]", "", regex=True).str.replace(",", ".", regex=False)
CleanNumeric(s) ==
    LET kept == SelectSeq(s, IsNumericSymbol)
    IN  [i \in 1..Len(kept) |-> IF kept[i] = "," THEN "." ELSE kept[i]]

AllDigits(s) == \A i \in 1..Len(s) : s[i] \in Digits
DigitValue(c) == (CHOOSE i \in 1..10 : DigitSeq[i] = c) - 1
RECURSIVE DigitsValue(_)
DigitsValue(s) ==
    IF s = <<>> THEN 0 ELSE 10 * DigitsValue(SubSeq(s, 1, Len(s) - 1)) + DigitValue(s[Len(s)])
RECURSIVE Pow10(_)
Pow10(k) == IF k = 0 THEN 1 ELSE 10 * Pow10(k - 1)

\* The parse of one string by pd.to_numeric: [ok, value].  The empty string is
\* read as a missing value, not as a failure; otherwise an optional minus sign,
\* digits, at most one period, and at least one digit.
ParseNumber(s) ==
    IF s = <<>> THEN [ok |-> TRUE, value |-> NaN]
    ELSE LET neg == Head(s) = "-"
             body == IF neg THEN Tail(s) ELSE s
             dots == {i \in 1..Len(body) : body[i] = "."}
             dot == IF dots = {} THEN Len(body) + 1
                    ELSE CHOOSE i \in dots : \A k \in dots : i <= k
             whole == SubSeq(body, 1, dot - 1)
             frac == SubSeq(body, dot + 1, Len(body))
             wellformed == /\ AllDigits(whole)
                           /\ AllDigits(frac)
                           /\ Len(whole) + Len(frac) > 0
             magnitude == DigitsValue(whole \o frac)
         IN  IF wellformed
             THEN [ok |-> TRUE,
                   value |-> Reduced(IF neg THEN -magnitude ELSE magnitude,
                                     Pow10(Len(frac)))]
             ELSE [ok |-> FALSE, value |-> NaN]

CleanedColumn(col) == LET txt == AsStr(col) IN [i \in DOMAIN col |-> CleanNumeric(txt[i])]

\* pd.to_numeric(sample, errors="raise") does not raise (lines 203-207).
ToNumericAccepts(col) ==
    LET cleaned == CleanedColumn(col)
    IN  \A i \in DOMAIN cleaned : ParseNumber(cleaned[i]).ok

\* pd.to_numeric(cleaned, errors="coerce") (lines 220-225, 308-313).
CoerceNumeric(col) ==
    LET cleaned == CleanedColumn(col)
    IN  [i \in DOMAIN col |-> ParseNumber(cleaned[i]).value]

\* Lines 186, 193-208 (and 274-289): the columns offered for X and Y.
cat_cols(df) == {c \in ColumnSet(df) : IsObjectDtype(Column(df, c))}
num_cols(df) == {c \in ColumnSet(df) : IsNumericDtype(Column(df, c))}
convertible(df, x_col) ==
    {c \in ColumnSet(df) : /\ c \notin num_cols(df)
                           /\ c # x_col
                           /\ ToNumericAccepts(Column(df, c))}
y_candidates(df, x_col) == num_cols(df) \cup convertible(df, x_col)

(***************************************************************************)
(* Aggregation by category, lines 227-240 (and 335-344, 359).              *)
(* A series is a sequence of entries [key, value], keys distinct.          *)
(***************************************************************************)
Entry(key, value) == [key |-> key, value |-> value]
Keys(series) == {series[i].key : i \in DOMAIN series}

\* The order groupby gives its keys (numbers before text, each ascending).
KeyLess(a, b) ==
    IF a.t = "num" /\ b.t = "num" THEN NumLess(a, b)
    ELSE IF a.t = "num" \/ b.t = "num" THEN a.t = "num"
    ELSE TextLess(a.s, b.s)
RECURSIVE SortedKeys(_)
SortedKeys(S) ==
    IF S = {} THEN <<>>
    ELSE LET least == CHOOSE k \in S : \A o \in S \ {k} : KeyLess(k, o)
         IN  <<least>> \o SortedKeys(S \ {least})

\* groupby(x_col): the groups are the non-null keys.
GroupKeys(keys) == SortedKeys({keys[i] : i \in {r \in DOMAIN keys : ~IsMissing(keys[r])}})

RowsOf(keys, values, k) == {i \in DOMAIN keys : keys[i] = k /\ ~IsMissing(values[i])}

RECURSIVE SumRows(_, _)
SumRows(values, rows) ==
    IF rows = {} THEN Num(0, 1)
    ELSE LET i == CHOOSE r \in rows : TRUE
         IN  NumAdd(values[i], SumRows(values, rows \ {i}))

\* groupby(x_col)[y_col].sum(): missing values skipped, 0 for a group without values.
GroupSum(keys, values) ==
    LET ks == GroupKeys(keys)
    IN  [g \in 1..Len(ks) |-> Entry(ks[g], SumRows(values, RowsOf(keys, values, ks[g])))]

\* groupby(x_col)[y_col].mean(): NaN for a group without values.
GroupMean(keys, values) ==
    LET ks == GroupKeys(keys)
    IN  [g \in 1..Len(ks) |->
            LET rows == RowsOf(keys, values, ks[g])
            IN  Entry(ks[g], IF rows = {} THEN NaN
                             ELSE NumDivInt(SumRows(values, rows), Cardinality(rows)))]

\* Variant: keep="last".
RECURSIVE LastFrom(_, _, _, _)
LastFrom(keys, values, i, acc) ==
    IF i > Len(keys) THEN acc
    ELSE IF IsMissing(values[i]) THEN LastFrom(keys, values, i + 1, acc)
    ELSE LastFrom(keys, values, i + 1,
                  SelectSeq(acc, LAMBDA e : e.key # keys[i]) \o <<Entry(keys[i], values[i])>>)
RECURSIVE FirstFrom(_, _, _, _)
FirstFrom(keys, values, i, acc) ==
    IF i > Len(keys) THEN acc
    ELSE IF IsMissing(values[i]) \/ keys[i] \in Keys(acc)
         THEN FirstFrom(keys, values, i + 1, acc)
         ELSE FirstFrom(keys, values, i + 1, acc \o <<Entry(keys[i], values[i])>>)

TakeLast(keys, values) == LastFrom(keys, values, 1, <<>>)
\* dropna(subset=[y_col]).drop_duplicates(subset=[x_col], keep="first")
\*   .set_index(x_col)[y_col]
TakeFirst(keys, values) == FirstFrom(keys, values, 1, <<>>)

Combines == {"Tomar primer valor", "Sumar", "Promediar"}

\* Lines 228-237.
Aggregate(combine, keys, values) ==
    IF combine = "Tomar primer valor" THEN TakeFirst(keys, values)
    ELSE IF combine = "Sumar" THEN GroupSum(keys, values)
    ELSE GroupMean(keys, values)

\* Series.sort_values(ascending=...): by value, missing values last in their
\* given order; the default sort is not stable, so entries of equal value
\* may come out in any order.  The set of all the orders it can give.
Better(a, b, ascending) == IF ascending THEN NumLess(a, b) ELSE NumLess(b, a)
RECURSIVE Orders(_, _)
Orders(S, ascending) ==
    IF S = {} THEN {<<>>}
    ELSE UNION {{<<e>> \o rest : rest \in Orders(S \ {e}, ascending)} :
                e \in {b \in S : \A o \in S : ~Better(o.value, b.value, ascending)}}
SortValues(series, ascending) ==
    {sorted \o SelectSeq(series, LAMBDA e : IsMissing(e.value)) :
        sorted \in Orders({series[i] : i \in {r \in DOMAIN series :
                                                ~IsMissing(series[r].value)}}, ascending)}

\* Variant: one entry short.
HeadLess(series, n) == SubSeq(series, 1, IF n - 1 < Len(series) THEN n - 1 ELSE Len(series))
\* Series.head(n)
Head_n(series, n) == SubSeq(series, 1, IF n < Len(series) THEN n ELSE Len(series))

(***************************************************************************)
(* Calendar dates, as proleptic Gregorian ordinals (0001-01-01 is day 1).  *)
(***************************************************************************)
IsLeap(y) == (y % 4 = 0 /\ y % 100 # 0) \/ y % 400 = 0
DaysInMonth(y, m) ==
    IF m = 2 THEN (IF IsLeap(y) THEN 29 ELSE 28)
    ELSE IF m \in {4, 6, 9, 11} THEN 30 ELSE 31
RECURSIVE DaysBeforeMonth(_, _)
DaysBeforeMonth(y, m) ==
    IF m = 1 THEN 0 ELSE DaysBeforeMonth(y, m - 1) + DaysInMonth(y, m - 1)
DaysBeforeYear(y) ==
    LET p == y - 1 IN p * 365 + (p \div 4) - (p \div 100) + (p \div 400)
Ordinal(y, m, d) == DaysBeforeYear(y) + DaysBeforeMonth(y, m) + d

YearOf(o) ==
    LET n0 == o - 1
        n400 == n0 \div 146097
        r400 == n0 % 146097
        n100 == r400 \div 36524
        r100 == r400 % 36524
        n4 == r100 \div 1461
        r4 == r100 % 1461
        n1 == r4 \div 365
        y == n400 * 400 + n100 * 100 + n4 * 4 + n1 + 1
    IN  IF n1 = 4 \/ n100 = 4 THEN y - 1 ELSE y
MonthOf(o) ==
    LET y == YearOf(o)
        rest == o - DaysBeforeYear(y)
    IN  CHOOSE m \in 1..12 :
            DaysBeforeMonth(y, m) < rest /\ rest <= DaysBeforeMonth(y, m) + DaysInMonth(y, m)

\* 1970-01-01, the date of a small integer read as nanoseconds since the epoch.
EpochOrdinal == Ordinal(1970, 1, 1)

\* The parse of one text by pd.to_datetime: [ok, value].  Text of the form
\* YYYY-MM-DD that names a calendar day is a date, the empty text is NaT;
\* the model gives no other text to the parser as a date (see DateTestKnown).
ParseDate(s) ==
    IF s = <<>> THEN [ok |-> TRUE, value |-> NaT]
    ELSE IF /\ Len(s) = 10
            /\ s[5] = "-" /\ s[8] = "-"
            /\ \A i \in {1, 2, 3, 4, 6, 7, 9, 10} : s[i] \in Digits
         THEN LET y == DigitsValue(SubSeq(s, 1, 4))
                  m == DigitsValue(SubSeq(s, 6, 7))
                  d == DigitsValue(SubSeq(s, 9, 10))
              IN  IF /\ y >= 1678 /\ y <= 2261
                     /\ m >= 1 /\ m <= 12
                     /\ d >= 1 /\ d <= DaysInMonth(y, m)
                  THEN [ok |-> TRUE, value |-> Date(Ordinal(y, m, d))]
                  ELSE [ok |-> FALSE, value |-> NaT]
         ELSE [ok |-> FALSE, value |-> NaT]

DateOfCell(c) ==
    CASE c.t = "str" -> ParseDate(c.s)
      [] c.t = "num" -> [ok |-> TRUE, value |-> Date(EpochOrdinal)]
      [] OTHER -> [ok |-> TRUE, value |-> NaT]

\* Text no date parser reads as a date: the model's tokens with a letter or a
\* currency sign (its input families hold no month or weekday names).
NotADate(c) == c.t = "str" /\ \E i \in 1..Len(c.s) : c.s[i] \in Letters \cup {"$"}
\* The columns whose date test the model decides: numbers, or text that is all
\* dates (or missing), or text with a token that is surely not a date.
DateTestKnown(col) ==
    \/ IsNumericDtype(col)
    \/ \E i \in DOMAIN col : NotADate(col[i])
    \/ \A i \in DOMAIN col : col[i].t \in {"str", "null"} /\ DateOfCell(col[i]).ok

\* Lines 266-271: pd.to_datetime(df[x_col], errors="raise") does not raise.
ToDatetimeAccepts(col) == \A i \in DOMAIN col : DateOfCell(col[i]).ok
\* Line 316: pd.to_datetime(..., errors="coerce")
CoerceDatetime(col) == [i \in DOMAIN col |-> DateOfCell(col[i]).value]

Freqs == {"D", "W", "M"}
\* The label of the bin of day o: the day (D), the Sunday that ends its week
\* (W is W-SUN), the last day of its month (M).
WeekEnd(o) == o + ((7 - (o % 7)) % 7)
MonthEnd(o) == LET y == YearOf(o) m == MonthOf(o) IN Ordinal(y, m, DaysInMonth(y, m))
BinOfDay(o, freq) ==
    IF freq = "D" THEN o ELSE IF freq = "W" THEN WeekEnd(o) ELSE MonthEnd(o)
NextBin(label, freq) == BinOfDay(label + 1, freq)
RECURSIVE BinsFromTo(_, _, _)
BinsFromTo(lo, hi, freq) ==
    IF lo > hi THEN <<>> ELSE <<lo>> \o BinsFromTo(NextBin(lo, freq), hi, freq)
MinOf(S) == CHOOSE a \in S : \A b \in S : a <= b
MaxOf(S) == CHOOSE a \in S : \A b \in S : a >= b
\* groupby(pd.Grouper(key=x_col, freq=freq)): every bin from the first day's to
\* the last day's, in order, the bins without rows included.
GrouperBins(days, freq) ==
    IF days = <<>> THEN <<>>
    ELSE BinsFromTo(BinOfDay(MinOf(Range(days)), freq),
                    BinOfDay(MaxOf(Range(days)), freq), freq)

\* .size() (line 322)
BinSizes(days, freq) ==
    LET bins == GrouperBins(days, freq)
    IN  [b \in 1..Len(bins) |->
            Entry(Date(bins[b]),
                  Num(Cardinality({i \in DOMAIN days : BinOfDay(days[i], freq) = bins[b]}), 1))]
\* [y_col].sum() (line 331)
BinSums(days, values, freq) ==
    LET bins == GrouperBins(days, freq)
    IN  [b \in 1..Len(bins) |->
            Entry(Date(bins[b]),
                  SumRows(values, {i \in DOMAIN days : /\ BinOfDay(days[i], freq) = bins[b]
                                                       /\ ~IsMissing(values[i])}))]

\* sdf[x_col].astype(str).value_counts() (line 326), keys in order of first
\* appearance; the ordering by count is left to SortValues.
RECURSIVE DistinctInOrder(_, _)
DistinctInOrder(s, acc) ==
    IF s = <<>> THEN acc
    ELSE DistinctInOrder(Tail(s), IF \E i \in DOMAIN acc : acc[i] = Head(s)
                                  THEN acc ELSE acc \o <<Head(s)>>)
ValueCounts(texts) ==
    LET ks == DistinctInOrder(texts, <<>>)
    IN  [g \in 1..Len(ks) |->
            Entry(Str(ks[g]), Num(Cardinality({i \in DOMAIN texts : texts[i] = ks[g]}), 1))]

\* DataFrame.dropna(subset=[c]) / the rows at the given positions, in that order.
TakeRows(df, positions) == Frame(df.columns, [k \in DOMAIN positions |-> df.rows[positions[k]]])
RECURSIVE PresentRows(_, _)
PresentRows(col, i) ==
    IF i > Len(col) THEN <<>>
    ELSE (IF IsMissing(col[i]) THEN <<>> ELSE <<i>>) \o PresentRows(col, i + 1)
DropNa(df, c) == TakeRows(df, PresentRows(Column(df, c), 1))
\* DataFrame.sort_values(c) on dates: rows of equal date in any order.
SortByDate(df, c) ==
    LET col == Column(df, c)
    IN  {TakeRows(df, [k \in DOMAIN o |-> o[k].key]) :
            o \in Orders({Entry(i, Num(col[i].n, 1)) : i \in DOMAIN col}, TRUE)}

(***************************************************************************)
(* Rendering, lines 151-364.  The objects of a run: "stored" is the        *)
(* DataFrame the session holds (df, line 151), "copy" is a new one.        *)
(***************************************************************************)
TopNMin == 5
TopNMax == 50
TopNChoices == {TopNMin, TopNMax}

Objects(df) == [stored |-> df, copy |-> NoRecords]

\* Variant: the working name bound to the stored object itself.
SameObject(obj) == obj
\* df.copy() (lines 219, 306): the object the working name is bound to.
CopyObject(obj) == "copy"

\* heap after `name = df.copy()`
AfterCopy(heap, obj) == [heap EXCEPT ![CopyObject(obj)] = heap[obj]]

\* Line 172: int(df[c].isna().sum()) raises when the label c names two columns.
RenderCrash ==
    /\ pc = "render"
    /\ HasDuplicateColumns(session_df[1])
    /\ chart' = Chart("exception", <<>>, <<>>, "", 0, FALSE, "", FALSE, {}, NoRecords,
                      <<>>, <<>>)
    /\ pc' = "idle"
    /\ UNCHANGED <<session_df, last_rid, cache, completed, run, params, response,
                   requests, fetched, report>>

\* Lines 182-251: "Conteo por categoría".
Chart1 ==
    /\ pc = "render"
    /\ ~HasDuplicateColumns(session_df[1])
    /\ pc' = "idle"
    /\ UNCHANGED <<last_rid, cache, completed, run, params, response, requests,
                   fetched, report>>
    /\ LET df == session_df[1]
       IN  IF cat_cols(df) = {}
           THEN /\ chart' = Chart("info_no_cat", <<>>, <<>>, "", 0, FALSE, "", FALSE, {},
                                  NoRecords, <<>>, <<>>)
                /\ UNCHANGED session_df
           ELSE \E x_col \in cat_cols(df) :
                  LET candidates == y_candidates(df, x_col)
                  IN  IF candidates = {}
                      THEN /\ chart' = Chart("info_no_num", x_col, <<>>, "", 0, FALSE, "",
                                             FALSE, {}, NoRecords, <<>>, <<>>)
                           /\ UNCHANGED session_df
                      ELSE \E y_col \in candidates, combine \in Combines,
                              top_n \in TopNChoices, order_desc \in BOOLEAN :
                             LET df_num == CopyObject("stored")
                                 heap1 == AfterCopy(Objects(df), "stored")
                                 heap2 == [heap1 EXCEPT ![df_num] =
                                             SetColumn(@, y_col,
                                                       CoerceNumeric(Column(@, y_col)))]
                                 s == Aggregate(combine, Column(heap2[df_num], x_col),
                                                Column(heap2[df_num], y_col))
                             IN  /\ session_df' = Some(heap2["stored"])
                                 /\ \E sorted \in SortValues(s, ~order_desc) :
                                       LET shown == Head_n(sorted, top_n)
                                       IN  chart' = Chart(IF shown = <<>> THEN "warning_empty"
                                                          ELSE "bar",
                                                          x_col, <<y_col>>, combine, top_n,
                                                          order_desc, "", FALSE, candidates,
                                                          heap2[df_num], s, shown)

\* Variant: the date series cut like the bars.
AsBarSeries(series) == Head_n(series, TopNMin)
\* Lines 352-357: the date series is plotted as it is.
LineSeries(series) == series

\* Lines 259-364: "Serie temporal".  X ranges over the columns whose date test
\* the model decides; Y over "(solo conteo)" (<<>>) and the candidates other
\* than X.
Chart2 ==
    /\ pc = "render"
    /\ ~HasDuplicateColumns(session_df[1])
    /\ pc' = "idle"
    /\ UNCHANGED <<last_rid, cache, completed, run, params, response, requests,
                   fetched, report>>
    /\ LET df == session_df[1]
       IN  \E x_col \in {c \in ColumnSet(df) : DateTestKnown(Column(df, c))} :
             LET is_date == ToDatetimeAccepts(Column(df, x_col))
                 candidates == y_candidates(df, x_col)
             IN  \E y_sel \in {<<>>} \cup {<<c>> : c \in candidates \ {x_col}} :
                   LET sdf == CopyObject("stored")
                       heap1 == AfterCopy(Objects(df), "stored")
                       heap2 == IF y_sel = <<>> THEN heap1
                                ELSE [heap1 EXCEPT ![sdf] =
                                        SetColumn(@, y_sel[1],
                                                  CoerceNumeric(Column(@, y_sel[1])))]
                   IN  IF is_date
                       THEN \E freq \in Freqs :
                              LET heap3 == [heap2 EXCEPT ![sdf] =
                                              SetColumn(@, x_col,
                                                        CoerceDatetime(Column(@, x_col)))]
                              IN  \E ordered \in SortByDate(DropNa(heap3[sdf], x_col), x_col) :
                                    LET heap4 == [heap3 EXCEPT ![sdf] = ordered]
                                        xs == Column(ordered, x_col)
                                        days == [i \in DOMAIN xs |-> xs[i].n]
                                        series == IF y_sel = <<>> THEN BinSizes(days, freq)
                                                  ELSE BinSums(days, Column(ordered, y_sel[1]),
                                                               freq)
                                    IN  /\ session_df' = Some(heap4["stored"])
                                        /\ chart' = Chart(IF series = <<>> THEN "warning_empty"
                                                          ELSE "line",
                                                          x_col, y_sel, "", 0, FALSE, freq, TRUE,
                                                          candidates, ordered, series,
                                                          LineSeries(series))
                       ELSE \E combine \in (IF y_sel = <<>> THEN {""} ELSE Combines),
                               top_n \in TopNChoices, order_desc \in BOOLEAN :
                              LET work == heap2[sdf]
                                  agg == IF y_sel = <<>>
                                         THEN ValueCounts(AsStr(Column(work, x_col)))
                                         ELSE Aggregate(combine, Column(work, x_col),
                                                        Column(work, y_sel[1]))
                              IN  /\ session_df' = Some(heap2["stored"])
                                  /\ IF agg = <<>>
                                     THEN chart' = Chart("warning_empty", x_col, y_sel, combine,
                                                         top_n, order_desc, "", FALSE,
                                                         candidates, work, agg, <<>>)
                                     ELSE \E sorted \in SortValues(agg, ~order_desc) :
                                            chart' = Chart("bar", x_col, y_sel, combine, top_n,
                                                           order_desc, "", FALSE, candidates,
                                                           work, agg, Head_n(sorted, top_n))

(***************************************************************************)
(* The session: the state after the first run of the script, and the runs. *)
(***************************************************************************)
EmptyStore == [k \in {} |-> NoRecords]

\* Sidebar values: the defaults of lines 92-99 (the default resource id is
\* written r1), a change of q, a change of limit and offset; an empty id.
DefaultParams == Params(<<"r", "1">>, <<>>, 500, 0)
SessionParams ==
    {DefaultParams,
     Params(<<"r", "1">>, <<"f">>, 500, 0),
     Params(<<"r", "1">>, <<>>, 10, 100),
     Params(<<>>, <<>>, 500, 0)}

\* Two datasets the portal may serve.
RawCatMonto ==
    Frame(<<  <<"C", "a", "t">>, <<"M", "o", "n", "t", "o", " ", "$">>  >>,
          <<  <<Str(<<"A">>), Str(<<"$", "1", "0">>)>>,
              <<Str(<<"B">>), Str(<<"$", "5">>)>>  >>)
RawFechaVal ==
    Frame(<<  <<"F", "e", "c", "h", "a">>, <<" ", "V", "a", "l">>  >>,
          <<  <<Str(<<"2", "0", "2", "3", "-", "0", "1", "-", "1", "5">>), Str(<<"$", "1">>)>>,
              <<Str(<<"2", "0", "2", "3", "-", "0", "1", "-", "2", "8">>), Null>>  >>)

\* What may come back from a request: no reply, an error status, a body that
\* is not JSON, a reply without records, a dataset, and a final 3xx reply (one
\* requests does not follow) that carries a dataset.
SessionResponses ==
    {NetworkError, NoResultKey(404), BadBody(200), NoResultKey(200),
     Envelope(200, RawCatMonto), Envelope(200, RawFechaVal),
     Envelope(300, RawCatMonto)}

\* Lines 46-47 and the first run: nothing loaded, the cover page shown.
Init ==
    /\ session_df = None
    /\ last_rid = None
    /\ cache = EmptyStore
    /\ completed = EmptyStore
    /\ pc = "idle"
    /\ run = FALSE
    /\ params = DefaultParams
    /\ response = NoResponse
    /\ requests = 0
    /\ fetched = None
    /\ report = "portada"
    /\ chart = NoChart

Next ==
    \/ \E p \in SessionParams : Consultar(p, SessionResponses)
    \/ \E p \in SessionParams : Rerun(p)
    \/ Chart1
    \/ Chart2

Spec == Init /\ [][Next]_vars

\* The session over a given family of datasets, with the default sidebar
\* values: the button, a rerun, the charts.
Served(raws) == {Envelope(200, raw) : raw \in raws}
NextOver(raws) ==
    \/ Consultar(DefaultParams, Served(raws))
    \/ Rerun(DefaultParams)
    \/ Chart1
    \/ Chart2

(***************************************************************************)
(* The load logic and the slot (specification Spec).                       *)
(***************************************************************************)
\* The step is the load logic of a run the button started.
IsPress == pc = "idle" /\ run'

\* C1: when the button is pressed and the fetch returns zero rows, the run
\* reports "Sin datos", raises nothing, and st.session_state.df keeps the
\* value it had before the press.
C1_EmptyFetchKeepsSlot ==
    [][(IsPress /\ fetched' # None /\ NRows(fetched'[1]) = 0)
         => (report' = "sin_datos" /\ session_df' = session_df)]_vars
\* A press answered with no rows while a Record Set was loaded.
C1_Witness ==
    /\ pc = "idle" /\ run /\ report = "sin_datos"
    /\ requests = 1 /\ fetched = Some(NoRecords)
    /\ session_df # None

\* The reply is an HTTP-level failure as the specification words it: a
\* network error or a status that is not 2xx.
HttpFailure(resp) ==
    resp.kind = "neterr" \/ (resp.kind = "http" /\ ~(resp.status \in 200..299))
\* The reply is a failure requests reports: a network error or a 4xx/5xx status.
HttpError(resp) ==
    resp.kind = "neterr" \/ (resp.kind = "http" /\ resp.status \in 400..599)

C3_MemoizedFetch ==
    [][(IsPress /\ params'.resource_id # <<>>)
         => IF params' \in DOMAIN completed
            THEN requests' = 0 /\ fetched' = Some(completed[params'])
            ELSE requests' = 1]_vars
\* A press served from the cache after fetches with other arguments completed.
C3_Witness ==
    /\ pc = "idle" /\ run /\ requests = 0 /\ fetched # None
    /\ Cardinality(DOMAIN completed) >= 3
    /\ \E k \in DOMAIN completed : completed[k] # fetched[1]

\* C4: st.session_state.df changes only in a press whose fetch returned a
\* non-empty Record Set, and then to exactly that Record Set; no chart run
\* changes its rows, values or types.
C4_SlotOnlyReplaced ==
    [][session_df' # session_df
         => /\ IsPress
            /\ fetched' # None
            /\ ~DfEmpty(fetched'[1])
            /\ session_df' = fetched']_vars
\* A time-series run that converted the X column to dates and coerced the Y
\* column to numbers in its copy.
C4_Witness ==
    /\ pc = "idle" /\ chart.kind = "line" /\ chart.y_col # <<>>
    /\ session_df # None
    /\ chart.work # session_df[1]
    /\ \E i \in 1..NRows(chart.work) : \E j \in 1..NCols(chart.work) :
          chart.work.rows[i][j].t = "date"

RECURSIVE SeqsUpTo(_, _)
SeqsUpTo(S, n) ==
    IF n = 0 THEN {<<>>}
    ELSE LET shorter == SeqsUpTo(S, n - 1)
         IN  shorter \cup {<<e>> \o t : e \in S, t \in {u \in shorter : Len(u) = n - 1}}

(***************************************************************************)
(* Datasets for the column normaliser.                                     *)
(***************************************************************************)
LabelChars == {" ", "A", "a", "1", "_", "-"}
Labels == SeqsUpTo(LabelChars, MaxLabelLen)
ShortLabels == SeqsUpTo(LabelChars, 1)
OneCell == Str(<<"x">>)
NormRaws ==
    {Frame(<<l>>, << <<OneCell>> >>) : l \in Labels}
    \cup {Frame(<<pair[1], pair[2]>>, << <<OneCell, OneCell>> >>) :
            pair \in {pr \in ShortLabels \X ShortLabels : pr[1] # pr[2]}}

NextNorm == NextOver(NormRaws) \/ RenderCrash
SpecNorm == Init /\ [][NextNorm]_vars

\* C5: normalising a normalised label gives the same label: every stored
\* column name is a fixed point of the normalisation, and so is the image of
\* every label of the response.
C5_NormalizeIdempotent ==
    /\ session_df # None =>
          \A j \in 1..NCols(session_df[1]) :
              NormalizeLabel(session_df[1].columns[j]) = session_df[1].columns[j]
    /\ response.kind = "http" =>
          \A j \in 1..NCols(response.records) :
              NormalizeLabel(NormalizeLabel(response.records.columns[j]))
                = NormalizeLabel(response.records.columns[j])
\* A loaded label with whitespace, a symbol and a capital, stored as "a_a".
C5_Witness ==
    /\ response.kind = "http"
    /\ response.records.columns = << <<"A", " ", "-">> >>
    /\ session_df # None
    /\ session_df[1].columns = << <<"a", "_">> >>

\* C6: in the Record Set a fetch stored, the normalised column names are
\* pairwise distinct.
C6_ColumnNamesDistinct ==
    session_df # None =>
        \A i, j \in 1..NCols(session_df[1]) :
            i # j => session_df[1].columns[i] # session_df[1].columns[j]

(***************************************************************************)
(* Datasets for the numeric sniffing: a key column "k" and a column "c"    *)
(* of up to MaxCells cells.                                                *)
(***************************************************************************)
SniffCells ==
    {Str(<<"1", "2", "3", "4", ".", "5", "6">>),
     Str(<<"1", ".", "2", "3", "4", ",", "5", "6">>),
     Str(<<"$", "1", "0">>),
     Str(<<"a", "b", "c">>),
     Str(<<"-", "5">>),
     Str(<<"1", "-", "2">>),
     Null,
     Num(7, 1)}
SniffRaws ==
    {Frame(<< <<"k">>, <<"c">> >>, [i \in DOMAIN cells |-> <<Str(<<"A">>), cells[i]>>]) :
        cells \in SeqsUpTo(SniffCells, MaxCells) \ {<<>>}}

NextSniff == NextOver(SniffRaws)
SpecSniff == Init /\ [][NextSniff]_vars

\* A text that is a number: an optional minus sign, then digits with at most
\* one period among them and at least one digit.
LooksNumeric(s) ==
    LET body == IF s # <<>> /\ Head(s) = "-" THEN Tail(s) ELSE s
    IN  /\ \A i \in 1..Len(body) : body[i] \in Digits \cup {"."}
        /\ Cardinality({i \in 1..Len(body) : body[i] = "."}) <= 1
        /\ \E i \in 1..Len(body) : body[i] \in Digits

\* The run computed the Y candidates.
OfferedY == chart.kind \in {"info_no_num", "bar", "line", "warning_empty"}

\* C7: a column that is neither numeric nor the X column is offered as a Y
\* candidate if and only if every one of its cells, cleaned (all but digits,
\* comma, period, minus deleted; comma -> period), parses as a number.
C7_ConvertibleIffAllParse ==
    OfferedY =>
        \A c \in ColumnSet(session_df[1]) :
            LET col == Column(session_df[1], c)
                cleaned == CleanedColumn(col)
            IN  (~IsNumericDtype(col) /\ c # chart.x_col)
                  => (c \in chart.y_candidates
                        <=> \A i \in DOMAIN cleaned : LooksNumeric(cleaned[i]))

(***************************************************************************)
(* Datasets for the aggregation by category: columns "cat" and "val", up   *)
(* to MaxRows rows.                                                        *)
(***************************************************************************)
KeyA == Str(<<"A">>)
KeyB == Str(<<"B">>)
AggRows ==
    {<<KeyA, Str(<<"1", "0">>)>>,
     <<KeyA, Str(<<"2", "0">>)>>,
     <<KeyB, Str(<<"5">>)>>,
     <<KeyB, Str(<<"x">>)>>,
     <<Null, Num(7, 1)>>}
ColCat == <<"c", "a", "t">>
ColVal == <<"v", "a", "l">>
AggRaws == {Frame(<<ColCat, ColVal>>, rows) : rows \in SeqsUpTo(AggRows, MaxRows) \ {<<>>}}

NextAgg == NextOver(AggRaws)
SpecAgg == Init /\ [][NextAgg]_vars

\* The run aggregated a value column by category.
AggregatedByCategory == chart.kind \in {"bar", "warning_empty"} /\ chart.combine \in Combines

\* The sum of the non-missing values of the rows 1..i whose key is k.
RECURSIVE TotalOf(_, _, _, _)
TotalOf(keys, values, k, i) ==
    IF i = 0 THEN Num(0, 1)
    ELSE IF keys[i] = k /\ ~IsMissing(values[i])
         THEN NumAdd(TotalOf(keys, values, k, i - 1), values[i])
         ELSE TotalOf(keys, values, k, i - 1)

ExampleRows == << <<KeyA, Str(<<"1", "0">>)>>, <<KeyA, Str(<<"2", "0">>)>>, <<KeyB, Str(<<"5">>)>> >>
ExampleResult(combine) ==
    IF combine = "Sumar" THEN <<Entry(KeyA, Num(30, 1)), Entry(KeyB, Num(5, 1))>>
    ELSE IF combine = "Promediar" THEN <<Entry(KeyA, Num(15, 1)), Entry(KeyB, Num(5, 1))>>
    ELSE <<Entry(KeyA, Num(10, 1)), Entry(KeyB, Num(5, 1))>>

\* C8: the aggregated series has unique keys, and the value of each key is
\* the combine strategy applied to the coerced values of the rows with that
\* key: the first non-missing value in row order, the sum of the non-missing
\* values, or their mean; a cell that does not clean to a number is missing
\* and aborts nothing; rows (A,10),(A,20),(B,5) give the stated results.
C8_CombineByKey ==
    AggregatedByCategory =>
        LET y_col == chart.y_col[1]
            raw == CleanedColumn(Column(session_df[1], y_col))
            keys == Column(chart.work, chart.x_col)
            values == Column(chart.work, y_col)
            agg == chart.agg
            valued(k) == {i \in DOMAIN keys : keys[i] = k /\ ~IsMissing(values[i])}
        IN  /\ keys = Column(session_df[1], chart.x_col)
            /\ \A i \in DOMAIN values : IsMissing(values[i]) <=> ~LooksNumeric(raw[i])
            /\ \A a, b \in DOMAIN agg : a # b => agg[a].key # agg[b].key
            /\ \A a \in DOMAIN agg :
                 LET k == agg[a].key
                     total == TotalOf(keys, values, k, Len(keys))
                 IN  /\ \E i \in DOMAIN keys : keys[i] = k
                     /\ chart.combine = "Tomar primer valor" =>
                          /\ valued(k) # {}
                          /\ agg[a].value = values[MinOf(valued(k))]
                     /\ chart.combine = "Sumar" => agg[a].value = total
                     /\ chart.combine = "Promediar" =>
                          IF valued(k) = {} THEN agg[a].value = NaN
                          ELSE /\ agg[a].value.t = "num"
                               /\ agg[a].value.n * Cardinality(valued(k)) * total.d
                                    = total.n * agg[a].value.d
            /\ \A i \in DOMAIN keys :
                 (IF chart.combine = "Tomar primer valor" THEN ~IsMissing(values[i])
                  ELSE ~IsMissing(keys[i]))
                   => keys[i] \in Keys(agg)
            /\ session_df[1].rows = ExampleRows /\ chart.x_col = ColCat
                 => agg = ExampleResult(chart.combine)
\* The rows (A,10),(A,20),(B,5) summed by cat: A 30, B 5.
C8_Witness ==
    /\ chart.kind = "bar" /\ chart.combine = "Sumar"
    /\ chart.x_col = ColCat /\ chart.y_col = <<ColVal>>
    /\ session_df[1].rows = ExampleRows
    /\ chart.agg = <<Entry(KeyA, Num(30, 1)), Entry(KeyB, Num(5, 1))>>

(***************************************************************************)
(* Datasets for Top N: up to MaxKeys categories c1, c2, ..., the i-th on   *)
(* Times(i) rows, the values following a pattern; and two datasets without *)
(* any value.                                                              *)
(***************************************************************************)
Patterns == {"up", "mixed", "pairs", "gap"}
ValueAt(pattern, i) ==
    CASE pattern = "up" -> Str(IntText(i))
      [] pattern = "mixed" -> Str(IntText((i * 3) % 7))
      [] pattern = "pairs" -> Str(IntText((i + 1) \div 2))
      [] pattern = "gap" -> IF i = 2 THEN Str(<<"x">>) ELSE Str(IntText(i))
      [] OTHER -> Str(<<"x">>)
Times(i) == 1 + ((i - 1) % 3)
RECURSIVE Copies(_, _)
Copies(row, k) == IF k = 0 THEN <<>> ELSE <<row>> \o Copies(row, k - 1)
RECURSIVE RowsUpTo(_, _)
RowsUpTo(pattern, i) ==
    IF i = 0 THEN <<>>
    ELSE RowsUpTo(pattern, i - 1)
           \o Copies(<<Str(<<"c">> \o IntText(i)), ValueAt(pattern, i)>>, Times(i))
TopNRaws ==
    {Frame(<<ColCat, ColVal>>, RowsUpTo(pattern, n)) :
        n \in 1..MaxKeys, pattern \in Patterns}
    \cup {Frame(<<ColCat, ColVal>>, RowsUpTo("void", n)) : n \in {1, 2}}

NextTopN == NextOver(TopNRaws)
SpecTopN == Init /\ [][NextTopN]_vars

\* The run drew bars: a categorical series, ordered and cut to Top N.
OrderedAndCut == chart.kind \in {"bar", "warning_empty"} /\ ~chart.is_date

\* a is strictly before b in the chosen order.
StrictlyBetter(a, b) == IF chart.order_desc THEN NumLess(b, a) ELSE NumLess(a, b)

\* C9: of a categorical series of K entries the chart keeps min(N, K), in
\* the chosen order of value (missing values last), and no entry left out
\* has a value strictly better in that order than an entry kept.
C9_TopN ==
    OrderedAndCut =>
        LET agg == chart.agg
            series == chart.series
            kept == Range(series)
            left == Range(agg) \ kept
        IN  /\ Len(series) = (IF chart.top_n < Len(agg) THEN chart.top_n ELSE Len(agg))
            /\ kept \subseteq Range(agg)
            /\ Cardinality(kept) = Len(series)
            /\ \A i, j \in DOMAIN series :
                 i < j => /\ IsMissing(series[i].value) => IsMissing(series[j].value)
                          /\ (~IsMissing(series[i].value) /\ ~IsMissing(series[j].value))
                               => ~StrictlyBetter(series[j].value, series[i].value)
            /\ \A e \in left, k \in kept :
                 ~IsMissing(e.value)
                   => /\ ~IsMissing(k.value)
                      /\ ~StrictlyBetter(e.value, k.value)
\* Six categories with the means 1..6, descending, cut to the top five: 6..2.
C9_Witness ==
    /\ chart.kind = "bar" /\ chart.combine = "Promediar" /\ chart.order_desc
    /\ chart.top_n = TopNMin /\ Len(chart.agg) > TopNMin
    /\ Len(chart.series) = TopNMin
    /\ [i \in 1..TopNMin |-> chart.series[i].value] = [i \in 1..TopNMin |-> Num(7 - i, 1)]

(***************************************************************************)
(* Datasets for the time series: a column "fecha" of up to MaxDates cells. *)
(***************************************************************************)
Dec31 == Str(<<"2", "0", "2", "2", "-", "1", "2", "-", "3", "1">>)
Jan15 == Str(<<"2", "0", "2", "3", "-", "0", "1", "-", "1", "5">>)
Jan28 == Str(<<"2", "0", "2", "3", "-", "0", "1", "-", "2", "8">>)
Feb01 == Str(<<"2", "0", "2", "3", "-", "0", "2", "-", "0", "1">>)
DateCells == {Dec31, Jan15, Jan28, Feb01, Null}
ColFecha == <<"f", "e", "c", "h", "a">>
DateRaws ==
    {Frame(<<ColFecha>>, [i \in DOMAIN cells |-> <<cells[i]>>]) :
        cells \in SeqsUpTo(DateCells, MaxDates) \ {<<>>}}

NextDate == NextOver(DateRaws)
SpecDate == Init /\ [][NextDate]_vars

\* The run counted rows per calendar interval.
CountedByDate == chart.kind \in {"line", "warning_empty"} /\ chart.is_date /\ chart.y_col = <<>>

\* The day written YYYY-MM-DD in s is in the interval labelled by day number
\* label: that day; the week up to that Sunday; the month that day ends.
InInterval(s, label, freq) ==
    LET y == DigitsValue(SubSeq(s, 1, 4))
        m == DigitsValue(SubSeq(s, 6, 7))
        d == DigitsValue(SubSeq(s, 9, 10))
        day == Ordinal(y, m, d)
    IN  CASE freq = "D" -> day = label
          [] freq = "W" -> label % 7 = 0 /\ day <= label /\ label - 6 <= day
          [] OTHER -> /\ YearOf(label) = y /\ MonthOf(label) = m
                      /\ MonthOf(label + 1) # m

\* C10: counting by date drops the rows without a date, counts every other
\* row in exactly one bucket (the day, week or month of its date), gives
\* each bucket the number of rows of its interval, in ascending order of
\* date, and is not cut to Top N.
C10_DateBuckets ==
    CountedByDate =>
        LET raw == Column(session_df[1], chart.x_col)
            dated == {i \in DOMAIN raw : raw[i].t = "str"}
            series == chart.series
            inside(b) == {i \in dated : InInterval(raw[i].s, series[b].key.n, chart.freq)}
        IN  /\ NRows(chart.work) = Cardinality(dated)
            /\ \A i \in dated : Cardinality({b \in DOMAIN series : i \in inside(b)}) = 1
            /\ \A b \in DOMAIN series : series[b].value = Num(Cardinality(inside(b)), 1)
            /\ \A b, c \in DOMAIN series : b < c => series[b].key.n < series[c].key.n
\* Monthly count of 2023-01-15 and 2023-01-28: one bucket, January 2023, 2.
C10_Witness ==
    /\ chart.kind = "line" /\ chart.freq = "M" /\ chart.y_col = <<>>
    /\ session_df[1].rows = << <<Jan15>>, <<Jan28>> >>
    /\ chart.series = <<Entry(Date(Ordinal(2023, 1, 31)), Num(2, 1))>>

====
